---- MODULE Spec2Model ----
\* Model of hmt_escrow/storage.py: upload and download of an encrypted
\* document through one of two backends (an S3 bucket keyed by the SHA-1 of
\* the canonical JSON, and IPFS keyed by the key the node assigns).
EXTENDS Integers, Sequences, FiniteSets, TLC

\* ---------------------------------------------------------------- bounds
\* Total number of upload/download calls made in one behaviour.
MaxCalls == 2

\* ------------------------------------------------------------ environment
\* The two concurrent callers of the module.
Callers == {"c1", "c2"}

\* A dict is a sequence of <<key, value>> items in insertion order with
\* distinct keys; key strings are modelled by their ordinal (1 < 2 < ...).
\* The documents callers upload: the same mapping built in two insertion
\* orders, and a different one.
Docs ==
    { << <<1, 1>>, <<2, 1>> >>,
      << <<2, 1>>, <<1, 1>> >>,
      << <<1, 2>> >> }

\* Python dict equality: same items, whatever the insertion order.
DictEq(a, b) == {a[i] : i \in 1..Len(a)} = {b[i] : i \in 1..Len(b)}

\* Key material: public key k matches private key k, for the key pairs
\* k >= 1; Malformed stands for a byte string that is not the hex encoding
\* of a key.
Malformed == 0
KeyPairs == {1, 2}
PublicKeys == KeyPairs \cup {Malformed}
PrivateKeys == KeyPairs \cup {Malformed}

\* The ephemeral keys ecies.encrypt can draw.
Ephemerals == {1, 2}

SHARED_MAC_DATA == "9da0d3721774843193737244a0f3355191f66ff7321e83eae83f7f746eb34350"
ESCROW_BUCKETNAME == "escrow-results"

\* ------------------------------------------------------- pure functions
\* Position at which item x goes into the key-sorted sequence s.
RECURSIVE InsertSorted(_, _)
InsertSorted(x, s) ==
    IF s = <<>> THEN <<x>>
    ELSE IF x[1] <= Head(s)[1] THEN <<x>> \o s
    ELSE <<Head(s)>> \o InsertSorted(x, Tail(s))

RECURSIVE SortItems(_)
SortItems(d) ==
    IF d = <<>> THEN <<>> ELSE InsertSorted(Head(d), SortItems(Tail(d)))

RECURSIVE Flatten(_)
Flatten(items) ==
    IF items = <<>> THEN <<>>
    ELSE <<Head(items)[1], Head(items)[2]>> \o Flatten(Tail(items))

\* json.dumps without sort_keys: items in insertion order.
json_dumps_unsorted(msg) == Flatten(msg)

\* json.dumps(msg, sort_keys=True): the text, as a sequence of symbols.
json_dumps(msg) == Flatten(SortItems(msg))

\* json.loads: the dict whose items appear in the text, in text order.
RECURSIVE json_loads(_)
json_loads(text) ==
    IF Len(text) < 2 THEN <<>>
    ELSE << <<text[1], text[2]>> >> \o json_loads(SubSeq(text, 3, Len(text)))

\* A digest, modelled as a positional encoding that is injective on the
\* symbol sequences of the model (digest collisions are outside the model,
\* and so is the digest's width).
RECURSIVE Digest(_)
Digest(s) ==
    IF s = <<>> THEN 0
    ELSE Digest(SubSeq(s, 1, Len(s) - 1)) * 8 + s[Len(s)]

\* hashlib.sha1(manifest_.encode('utf-8')).hexdigest()
sha1_hexdigest(manifest) == <<"sha1", Digest(manifest)>>

\* The key an IPFS node assigns to added bytes: derived from the bytes.
ipfs_cid(ct) == <<"Qm", Digest(<<ct.eph, ct.pub>> \o ct.body)>>

\* A key no upload returned.
MissingKey == <<"sha1", 0>>

\* _encrypt: keys.PublicKey(...) rejects a malformed key; otherwise ECIES
\* with the ephemeral key eph. Result: [ok, exc, val].
_encrypt(public_key, msg, eph) ==
    IF public_key = Malformed
    THEN [ok |-> FALSE, exc |-> "ValidationError", val |-> <<>>]
    ELSE [ok |-> TRUE, exc |-> "none",
          val |-> [eph |-> eph, pub |-> public_key, mac |-> SHARED_MAC_DATA,
                   body |-> msg]]

\* _decrypt as it would be if the tag were not verified.
decrypt_unverified(private_key, ct) ==
    [ok |-> TRUE, exc |-> "none", val |-> ct.body]

\* _decrypt: keys.PrivateKey(...) rejects a malformed key; ecies.decrypt
\* verifies the tag and fails unless the ciphertext was made for the
\* matching public key with the same shared MAC data.
_decrypt(private_key, ct) ==
    IF private_key = Malformed
    THEN [ok |-> FALSE, exc |-> "ValidationError", val |-> <<>>]
    ELSE IF ct.pub = private_key /\ ct.mac = SHARED_MAC_DATA
    THEN [ok |-> TRUE, exc |-> "none", val |-> ct.body]
    ELSE [ok |-> FALSE, exc |-> "DecryptionError", val |-> <<>>]

\* ---------------------------------------------------------------- state
VARIABLES
    s3objects,  \* the object store: <<Bucket, Key>> -> Body
    ipfs,       \* the IPFS node: assigned key -> bytes
    call,       \* per caller: the call in progress, or the last finished
    log,        \* per caller: the records that call emitted through LOG
    ncalls      \* number of calls started so far

vars == <<s3objects, ipfs, call, log, ncalls>>

NoCt == [eph |-> 0, pub |-> 0, mac |-> "", body |-> <<>>]

NoCall ==
    [op |-> "none", pc |-> "done", s3 |-> TRUE, msg |-> <<>>,
     public_key |-> 0, key |-> MissingKey, private_key |-> 0, of |-> <<>>,
     hash_ |-> MissingKey, encrypted_msg |-> NoCt, fault |-> "none",
     outcome |-> "none", value |-> <<>>, exc |-> "none", puts |-> {},
     read |-> NoCt, decrypted |-> FALSE]

\* LOG.setLevel(logging.DEBUG if DEBUG else logging.INFO): a record of
\* level DEBUG is emitted only when the DEBUG environment flag is set, the
\* records of the other levels always.
AlwaysEmitted(r) == r.level # "DEBUG"

LogRec(level, line, args) == [level |-> level, line |-> line, args |-> args]
\* A format argument of a log call: what the value is (the value itself is
\* whatever the call was given).
Arg(kind, val) == kind

Idle(c) == call[c].pc = "done"

Init ==
    /\ s3objects = <<>>
    /\ ipfs = <<>>
    /\ call = [c \in Callers |-> NoCall]
    /\ log = [c \in Callers |-> <<>>]
    /\ ncalls = 0

\* f with k mapped to v.
Store(f, k, v) == [x \in DOMAIN f \cup {k} |-> IF x = k THEN v ELSE f[x]]

\* ---------------------------------------------------------------- upload
\* The arguments of BOTO3_CLIENT.put_object for a misdirected write.
put_object_under_store_key(hash_, encrypted_msg) ==
    [Bucket |-> ESCROW_BUCKETNAME, Key |-> ipfs_cid(encrypted_msg),
     Body |-> encrypted_msg]

\* The arguments of BOTO3_CLIENT.put_object(Bucket=, Key=, Body=).
put_object_args(hash_, encrypted_msg) ==
    [Bucket |-> ESCROW_BUCKETNAME, Key |-> hash_, Body |-> encrypted_msg]

\* An IPFS-branch handler that would fall through to a return.
upload_ipfs_swallow(c, exc) ==
    [c EXCEPT !.pc = "done", !.outcome = "returned",
              !.value = <<c.hash_, c.hash_>>, !.exc = "none",
              !.encrypted_msg = NoCt]

\* except-clause of the IPFS branch: log a warning, raise e.
upload_ipfs_except(c, exc) ==
    [c EXCEPT !.pc = "done", !.outcome = "raised", !.exc = exc,
              !.encrypted_msg = NoCt]

\* except-clause of the S3 branch: log a warning, then fall through to
\* `return hash_, hash_`.
upload_s3_except(c, exc) ==
    [c EXCEPT !.pc = "done", !.outcome = "returned",
              !.value = <<c.hash_, c.hash_>>, !.exc = "none",
              !.encrypted_msg = NoCt]

\* The record of a call to upload(msg, public_key, s3) after
\* manifest_ = json.dumps(msg, sort_keys=True) and the sha1 of it.
UploadCall(msg, public_key, s3) ==
    [NoCall EXCEPT !.op = "upload", !.pc = "put",
                   !.s3 = s3, !.msg = msg, !.public_key = public_key,
                   !.outcome = "running",
                   !.hash_ = sha1_hexdigest(json_dumps(msg))]

\* upload(msg, public_key, False) up to the call of add_bytes: serialize,
\* hash, _connect, _encrypt.
UploadIpfsStart(c, msg, public_key, connected, eph) ==
    /\ Idle(c)
    /\ ncalls < MaxCalls
    /\ ncalls' = ncalls + 1
    /\ LET u == UploadCall(msg, public_key, FALSE)
           enc == _encrypt(public_key, json_dumps(msg), eph)
       IN  IF ~connected
           THEN /\ call' = [call EXCEPT ![c] =
                       upload_ipfs_except([u EXCEPT !.fault = "connect"],
                                          "ConnectionError")]
                /\ log' = [log EXCEPT ![c] = (<<
                       LogRec("ERROR", 40, <<Arg("exception", "ConnectionError")>>),
                       LogRec("WARNING", 165, <<Arg("exception", "ConnectionError")>>)>>)]
           ELSE IF ~enc.ok
           THEN /\ call' = [call EXCEPT ![c] = upload_ipfs_except(u, enc.exc)]
                /\ log' = [log EXCEPT ![c] = (<<
                       LogRec("WARNING", 165, <<Arg("exception", enc.exc)>>)>>)]
           ELSE /\ call' = [call EXCEPT ![c] = [u EXCEPT !.encrypted_msg = enc.val]]
                /\ log' = [log EXCEPT ![c] = <<>>]
    /\ UNCHANGED <<s3objects, ipfs>>

\* key = IPFS_CLIENT.add_bytes(encrypted_msg); return hash_, key
UploadIpfsAdd(c, added) ==
    /\ call[c].op = "upload" /\ call[c].pc = "put" /\ ~call[c].s3
    /\ LET u == call[c]
           key == ipfs_cid(u.encrypted_msg)
       IN  IF added
           THEN /\ ipfs' = Store(ipfs, key, u.encrypted_msg)
                /\ call' = [call EXCEPT ![c] =
                       [u EXCEPT !.pc = "done", !.outcome = "returned",
                                 !.value = <<u.hash_, key>>,
                                 !.encrypted_msg = NoCt,
                                 !.puts = {[store |-> "ipfs", key |-> key,
                                            body |-> u.encrypted_msg]}]]
                /\ log' = [log EXCEPT ![c] = (<<
                       LogRec("DEBUG", 162, <<Arg("key", key)>>)>>)]
           ELSE /\ ipfs' = ipfs
                /\ call' = [call EXCEPT ![c] =
                       upload_ipfs_except([u EXCEPT !.fault = "io"],
                                          "BackendError")]
                /\ log' = [log EXCEPT ![c] = (<<
                       LogRec("WARNING", 165, <<Arg("exception", "BackendError")>>)>>)]
    /\ UNCHANGED <<s3objects, ncalls>>

\* upload(msg, public_key, True) up to the call of put_object: serialize,
\* hash, _connect_s3, _encrypt.
UploadS3Start(c, msg, public_key, connected, eph) ==
    /\ Idle(c)
    /\ ncalls < MaxCalls
    /\ ncalls' = ncalls + 1
    /\ LET u == UploadCall(msg, public_key, TRUE)
           enc == _encrypt(public_key, json_dumps(msg), eph)
       IN  IF ~connected
           THEN /\ call' = [call EXCEPT ![c] =
                       upload_s3_except([u EXCEPT !.fault = "connect"],
                                        "ConnectionError")]
                /\ log' = [log EXCEPT ![c] = (<<
                       LogRec("ERROR", 54, <<Arg("exception", "ConnectionError")>>),
                       LogRec("WARNING", 177, <<Arg("key", u.hash_),
                                                Arg("exception", "ConnectionError")>>)>>)]
           ELSE IF ~enc.ok
           THEN /\ call' = [call EXCEPT ![c] = upload_s3_except(u, enc.exc)]
                /\ log' = [log EXCEPT ![c] = (<<
                       LogRec("WARNING", 177, <<Arg("key", u.hash_),
                                                Arg("exception", enc.exc)>>)>>)]
           ELSE /\ call' = [call EXCEPT ![c] = [u EXCEPT !.encrypted_msg = enc.val]]
                /\ log' = [log EXCEPT ![c] = <<>>]
    /\ UNCHANGED <<s3objects, ipfs>>

\* BOTO3_CLIENT.put_object(...); return hash_, hash_
UploadS3Put(c, written) ==
    /\ call[c].op = "upload" /\ call[c].pc = "put" /\ call[c].s3
    /\ LET u == call[c]
           req == put_object_args(u.hash_, u.encrypted_msg)
       IN  IF written
           THEN /\ s3objects' = Store(s3objects, <<req.Bucket, req.Key>>, req.Body)
                /\ call' = [call EXCEPT ![c] =
                       [u EXCEPT !.pc = "done", !.outcome = "returned",
                                 !.value = <<u.hash_, u.hash_>>,
                                 !.encrypted_msg = NoCt,
                                 !.puts = {[store |-> req.Bucket, key |-> req.Key,
                                            body |-> req.Body]}]]
                /\ log' = [log EXCEPT ![c] = (<<
                       LogRec("DEBUG", 175, <<Arg("key", u.hash_)>>)>>)]
           ELSE /\ s3objects' = s3objects
                /\ call' = [call EXCEPT ![c] =
                       upload_s3_except([u EXCEPT !.fault = "io"], "BackendError")]
                /\ log' = [log EXCEPT ![c] = (<<
                       LogRec("WARNING", 177, <<Arg("key", u.hash_),
                                                Arg("exception", "BackendError")>>)>>)]
    /\ UNCHANGED <<ipfs, ncalls>>

\* -------------------------------------------------------------- download
\* The outcome of a backend read: [ok, exc, val].
Fetch(store, k, fault) ==
    IF fault = "connect"
    THEN [ok |-> FALSE, exc |-> "ConnectionError", val |-> NoCt]
    ELSE IF fault = "io" \/ k \notin DOMAIN store
    THEN [ok |-> FALSE, exc |-> "BackendError", val |-> NoCt]
    ELSE [ok |-> TRUE, exc |-> "none", val |-> store[k]]

\* A try block that reports every failure as a failure of the backend.
download_try_conflating(fetched, private_key) ==
    LET d == _decrypt(private_key, fetched.val)
    IN  IF fetched.ok /\ d.ok
        THEN [outcome |-> "returned", value |-> json_loads(d.val),
              exc |-> "none", decrypted |-> TRUE]
        ELSE [outcome |-> "raised", value |-> <<>>,
              exc |-> "BackendError", decrypted |-> fetched.ok]

\* The try block of download after the read: an exception of the read
\* skips _decrypt; `raise e` re-raises whatever was caught; otherwise
\* json.loads(msg) is returned.
download_try(fetched, private_key) ==
    IF ~fetched.ok
    THEN [outcome |-> "raised", value |-> <<>>, exc |-> fetched.exc,
          decrypted |-> FALSE]
    ELSE LET d == _decrypt(private_key, fetched.val)
         IN  IF d.ok
             THEN [outcome |-> "returned", value |-> json_loads(d.val),
                   exc |-> "none", decrypted |-> TRUE]
             ELSE [outcome |-> "raised", value |-> <<>>, exc |-> d.exc,
                   decrypted |-> TRUE]

\* The callers a download can take its key from: those holding the result
\* of an upload that returned; "nobody" stands for a key nobody returned.
Sources == {s \in Callers : call[s].op = "upload" /\ call[s].outcome = "returned"}
               \cup {"nobody"}
KeyFrom(src) == IF src \in Callers THEN call[src].value[2] ELSE MissingKey
\* What the caller of download knows of the upload that returned its key.
UploadOf(src) ==
    IF src \in Callers
    THEN <<[msg |-> call[src].msg, public_key |-> call[src].public_key,
            s3 |-> call[src].s3]>>
    ELSE <<>>

DownloadCall(src, private_key, s3, fault, fetched, r) ==
    [NoCall EXCEPT !.op = "download", !.s3 = s3,
                   !.key = KeyFrom(src), !.of = UploadOf(src),
                   !.private_key = private_key, !.fault = fault,
                   !.read = fetched.val,
                   !.outcome = r.outcome, !.value = r.value, !.exc = r.exc,
                   !.decrypted = r.decrypted]

\* The LOG.warning of download's except-clause.
DownloadWarning(line, key, private_key, r) ==
    IF r.outcome = "raised"
    THEN <<LogRec("WARNING", line, <<Arg("key", key),
                                     Arg("private_key", private_key),
                                     Arg("exception", r.exc)>>)>>
    ELSE <<>>

\* download(key, private_key, False)
DownloadIpfs(c, src, private_key, fault) ==
    /\ Idle(c)
    /\ ncalls < MaxCalls
    /\ src \in Sources
    /\ ncalls' = ncalls + 1
    /\ LET key == KeyFrom(src)
           fetched == Fetch(ipfs, key, fault)
           r == download_try(fetched, private_key)
       IN  /\ call' = [call EXCEPT ![c] =
                  DownloadCall(src, private_key, FALSE, fault, fetched, r)]
           /\ log' = [log EXCEPT ![c] = (
                  (IF fault = "connect"
                   THEN <<LogRec("ERROR", 40, <<Arg("exception", "ConnectionError")>>)>>
                   ELSE <<LogRec("DEBUG", 92, <<Arg("key", key)>>)>>)
                  \o DownloadWarning(96, key, private_key, r))]
    /\ UNCHANGED <<s3objects, ipfs>>

\* download(key, private_key, True)
DownloadS3(c, src, private_key, fault) ==
    /\ Idle(c)
    /\ ncalls < MaxCalls
    /\ src \in Sources
    /\ ncalls' = ncalls + 1
    /\ LET key == KeyFrom(src)
           fetched == Fetch(s3objects, <<ESCROW_BUCKETNAME, key>>, fault)
           r == download_try(fetched, private_key)
       IN  /\ call' = [call EXCEPT ![c] =
                  DownloadCall(src, private_key, TRUE, fault, fetched, r)]
           /\ log' = [log EXCEPT ![c] = (
                  <<LogRec("DEBUG", 103, <<Arg("key", key)>>)>>
                  \o (IF fault = "connect"
                      THEN <<LogRec("ERROR", 54, <<Arg("exception", "ConnectionError")>>)>>
                      ELSE <<>>)
                  \o DownloadWarning(109, key, private_key, r))]
    /\ UNCHANGED <<s3objects, ipfs>>

Faults == {"none", "connect", "io"}

\* ecies.encrypt draws an ephemeral key only when it is reached: after the
\* connection, with a public key that keys.PublicKey accepted.
Drawn(public_key, connected) ==
    IF connected /\ public_key # Malformed THEN Ephemerals ELSE {0}

Next ==
    \/ \E c \in Callers, msg \in Docs, public_key \in PublicKeys,
          connected \in BOOLEAN :
         \E eph \in Drawn(public_key, connected) :
           UploadIpfsStart(c, msg, public_key, connected, eph)
    \/ \E c \in Callers, added \in BOOLEAN : UploadIpfsAdd(c, added)
    \/ \E c \in Callers, msg \in Docs, public_key \in PublicKeys,
          connected \in BOOLEAN :
         \E eph \in Drawn(public_key, connected) :
           UploadS3Start(c, msg, public_key, connected, eph)
    \/ \E c \in Callers, written \in BOOLEAN : UploadS3Put(c, written)
    \/ \E c \in Callers, src \in Callers \cup {"nobody"}, private_key \in PrivateKeys,
          fault \in Faults :
           DownloadIpfs(c, src, private_key, fault)
    \/ \E c \in Callers, src \in Callers \cup {"nobody"}, private_key \in PrivateKeys,
          fault \in Faults :
           DownloadS3(c, src, private_key, fault)

Spec == Init /\ [][Next]_vars

\* ---------------------------------------------------------------- claims
Range(f) == {f[x] : x \in DOMAIN f}

UploadDone(c) == call[c].op = "upload" /\ call[c].pc = "done"
DownloadDone(c) == call[c].op = "download" /\ call[c].pc = "done"

\* The download of caller c is the retrieval of an earlier upload: its key
\* is the backend key that upload returned, on the same backend, with the
\* private key of the upload's recipient, and the backend is reachable and
\* answers.
RetrievesUpload(c) ==
    /\ DownloadDone(c)
    /\ call[c].of # <<>>
    /\ call[c].s3 = call[c].of[1].s3
    /\ call[c].of[1].public_key \in KeyPairs
    /\ call[c].private_key = call[c].of[1].public_key
    /\ call[c].fault = "none"

\* C1: round trip. If upload(D, pub, backend) returned (hash, backendKey),
\* a later download(backendKey, priv, backend) with the matching private
\* key returns a document equal to D.
C1_RoundTrip ==
    \A c \in Callers :
        RetrievesUpload(c) =>
            /\ call[c].outcome = "returned"
            /\ DictEq(call[c].value, call[c].of[1].msg)

\* C2: a failed object-store write is reported. An upload to the object
\* store whose connection or put failed does not end with the ordinary
\* (hash, hash) result of a successful persist.
C2_FailedWriteReported ==
    \A c \in Callers :
        (UploadDone(c) /\ call[c].s3 /\ call[c].fault \in {"connect", "io"}) =>
            ~(call[c].outcome = "returned"
              /\ call[c].value = <<call[c].hash_, call[c].hash_>>)

\* C3: content identity stability. Any two uploads of equal documents that
\* returned, returned the same content identifier, whatever their public
\* keys, backends and backend outcomes.
C3_ContentIdentityStable ==
    \A c1, c2 \in Callers :
        (/\ UploadDone(c1) /\ call[c1].outcome = "returned"
         /\ UploadDone(c2) /\ call[c2].outcome = "returned"
         /\ DictEq(call[c1].msg, call[c2].msg)) =>
            call[c1].value[1] = call[c2].value[1]

\* Two uploads of the same mapping, built in different insertion orders,
\* for different recipients on different backends, one of which lost its
\* write, both returned.
C3_Witness ==
    \E c1, c2 \in Callers :
        /\ UploadDone(c1) /\ call[c1].outcome = "returned"
        /\ UploadDone(c2) /\ call[c2].outcome = "returned"
        /\ DictEq(call[c1].msg, call[c2].msg)
        /\ call[c1].msg # call[c2].msg
        /\ call[c1].public_key # call[c2].public_key
        /\ call[c1].s3 /\ ~call[c2].s3
        /\ call[c1].fault = "io"

\* Every ciphertext _encrypt has produced: pending in an upload or stored.
Ciphertexts ==
    {call[c].encrypted_msg : c \in {x \in Callers : call[x].pc = "put"}}
        \cup Range(s3objects) \cup Range(ipfs)

\* C4: negative decryption. _decrypt of a ciphertext made for public key A
\* with a private key that does not match A raises DecryptionError, and a
\* download whose private key does not match the ciphertext it read never
\* returns a document, on either backend.
C4_NegativeDecryption ==
    /\ \A ct \in Ciphertexts : \A k \in KeyPairs \ {ct.pub} :
           LET d == _decrypt(k, ct)
           IN  ~d.ok /\ d.exc = "DecryptionError" /\ d.val = <<>>
    /\ \A c \in Callers :
           (/\ DownloadDone(c)
            /\ call[c].read # NoCt
            /\ call[c].private_key # call[c].read.pub) =>
               /\ call[c].outcome = "raised"
               /\ call[c].value = <<>>
               /\ call[c].private_key \in KeyPairs =>
                      call[c].exc = "DecryptionError"

\* A download read a stored ciphertext and was given the private key of
\* another key pair.
C4_Witness ==
    \E c \in Callers :
        /\ DownloadDone(c)
        /\ call[c].read \in Ciphertexts
        /\ call[c].private_key \in KeyPairs \ {call[c].read.pub}
        /\ call[c].exc = "DecryptionError"

\* C5: content-store failure isolation. An upload to the content store
\* whose connection, encryption or add failed raises and returns no pair;
\* one that returns, returns the key the store assigned to the ciphertext
\* this call added.
C5_ContentStoreIsolation ==
    \A c \in Callers :
        (UploadDone(c) /\ ~call[c].s3) =>
            /\ (call[c].fault # "none" \/ call[c].public_key = Malformed) =>
                   /\ call[c].outcome = "raised"
                   /\ call[c].value = <<>>
                   /\ call[c].puts = {}
            /\ call[c].outcome = "returned" =>
                   \E w \in call[c].puts :
                       /\ call[c].puts = {w}
                       /\ w.store = "ipfs"
                       /\ w.body.pub = call[c].public_key
                       /\ w.body.body = json_dumps(call[c].msg)
                       /\ w.key = ipfs_cid(w.body)
                       /\ call[c].value[2] = w.key
                       /\ w.key \in DOMAIN ipfs /\ ipfs[w.key] = w.body

\* An upload to the content store failed at the add, and another returned.
C5_Witness ==
    \E c1, c2 \in Callers :
        /\ UploadDone(c1) /\ ~call[c1].s3 /\ call[c1].fault = "io"
        /\ call[c1].outcome = "raised"
        /\ UploadDone(c2) /\ ~call[c2].s3 /\ call[c2].outcome = "returned"

\* What a fault-free download by the recipient of caller c's upload, with
\* the key that upload returned, gives on the object store.
RecipientDownload(c) ==
    download_try(Fetch(s3objects, <<ESCROW_BUCKETNAME, call[c].value[2]>>, "none"),
                 call[c].public_key)

\* C6: concurrent stores of the same document are safe on the object
\* store. After two uploads of the same document to the object store have
\* both returned, their writes done, each caller's recipient can download
\* the document with the identifier returned to that caller.
C6_ConcurrentStoresSafe ==
    \A c1, c2 \in Callers :
        (/\ c1 # c2
         /\ UploadDone(c1) /\ call[c1].s3 /\ call[c1].puts # {}
         /\ UploadDone(c2) /\ call[c2].s3 /\ call[c2].puts # {}
         /\ DictEq(call[c1].msg, call[c2].msg)) =>
            /\ RecipientDownload(c1).outcome = "returned"
            /\ DictEq(RecipientDownload(c1).value, call[c1].msg)

\* C7: no key material in logs. No record the module emits, on any path of
\* upload or download, carries a private key.
C7_NoKeyMaterialInLogs ==
    \A c \in Callers : \A i \in 1..Len(log[c]) :
        AlwaysEmitted(log[c][i]) => "private_key" \notin Range(log[c][i].args)

\* C8: object-store keying. An upload to the object store returns the
\* content identifier as backend key, and writes nothing but the
\* ciphertext of the canonical bytes, to the configured bucket, under the
\* content identifier.
C8_ObjectStoreKeying ==
    \A c \in Callers :
        (UploadDone(c) /\ call[c].s3 /\ call[c].outcome = "returned") =>
            /\ call[c].value[1] = sha1_hexdigest(json_dumps(call[c].msg))
            /\ call[c].value[2] = call[c].value[1]
            /\ \A w \in call[c].puts :
                   /\ call[c].puts = {w}
                   /\ w.store = ESCROW_BUCKETNAME
                   /\ w.key = call[c].value[1]
                   /\ w.body.pub = call[c].public_key
                   /\ w.body.body = json_dumps(call[c].msg)
                   /\ <<w.store, w.key>> \in DOMAIN s3objects

\* An upload to the object store returned after its put.
C8_Witness ==
    \E c \in Callers :
        /\ UploadDone(c) /\ call[c].s3 /\ call[c].outcome = "returned"
        /\ call[c].puts # {}
        /\ s3objects # <<>>

\* C9: a malformed recipient key fails the store. On each backend, an
\* upload with a malformed public key (the backend reachable) raises the
\* encryption error, returns no pair and writes nothing.
C9_MalformedKeyFails ==
    \A c \in Callers :
        (/\ UploadDone(c)
         /\ call[c].public_key = Malformed
         /\ call[c].fault = "none") =>
            /\ call[c].outcome = "raised"
            /\ call[c].exc = "ValidationError"
            /\ call[c].value = <<>>
            /\ call[c].puts = {}

\* C10: decryption failures are not conflated with backend failures. A
\* download whose connection or read failed raises that backend error and
\* attempts no decryption; one that read the ciphertext and failed the tag
\* verification raises the decryption error; a download that raises
\* returns no document.
C10_ErrorsNotConflated ==
    \A c \in Callers :
        DownloadDone(c) =>
            /\ call[c].fault = "connect" =>
                   /\ call[c].outcome = "raised"
                   /\ call[c].exc = "ConnectionError"
                   /\ ~call[c].decrypted
            /\ (call[c].fault = "io" \/ (call[c].fault = "none" /\ call[c].read = NoCt)) =>
                   /\ call[c].outcome = "raised"
                   /\ call[c].exc = "BackendError"
                   /\ ~call[c].decrypted
            /\ (/\ call[c].read # NoCt
                /\ call[c].private_key \in KeyPairs \ {call[c].read.pub}) =>
                   /\ call[c].outcome = "raised"
                   /\ call[c].exc = "DecryptionError"
                   /\ call[c].decrypted
            /\ call[c].outcome = "raised" => call[c].value = <<>>
            /\ call[c].outcome \in {"raised", "returned"}

\* A download read the ciphertext and failed the tag verification.
C10_Witness ==
    \E c \in Callers :
        /\ DownloadDone(c)
        /\ call[c].fault = "none"
        /\ call[c].read # NoCt
        /\ call[c].outcome = "raised"
        /\ call[c].exc = "DecryptionError"
        /\ call[c].decrypted

====
